---- MODULE Spec2Model ----
(***************************************************************************)
(* A model of the DNS message codec and single-exchange responder of       *)
(* src/src/protocol.rs and of the receive loop of src/src/main.rs.         *)
(*                                                                         *)
(* A byte is a number in 0..255, a buffer (&[u8], Vec<u8>, [u8; 12]) is a  *)
(* sequence of bytes.  Rust indexes from 0, TLA+ sequences from 1: the     *)
(* operators below keep Rust's 0-based indexes and go through At.  A Rust  *)
(* String is modelled by its UTF-8 bytes.  A function that can return Err  *)
(* or panic yields a record whose kind is "ok", "err" or "panic".          *)
(***************************************************************************)
EXTENDS Integers, Sequences, FiniteSets, TLC

VARIABLES
    pc,        \* main: position in the receive loop; codec harness: its phase
    buf,       \* main: &buf[0..size], the datagram received last
    result,    \* main: outcome of DNSQuery::from_bytes on buf
    response,  \* main: the DNSResponse built by for_request
    out,       \* main: the bytes handed to send_to
    arg,       \* codec harness: the structure given to to_bytes
    enc,       \* codec harness: the bytes to_bytes produced
    dec        \* codec harness: the outcome of from_bytes on enc

vars == <<pc, buf, result, response, out, arg, enc, dec>>

\* ------------------------------------------------------------------ bounds

\* Longest question section drawn byte by byte from RawAlphabet.
MaxRawLen == 4
\* Most length-prefixed chunks put before the ending of a built question section.
MaxChunks == 2
\* Most labels of a DNSQuestion / DNSAnswer given to the encoders.
MaxLabels == 2

\* let mut buf = [0; 512]
BufSize == 512

\* ------------------------------------------------------- integer operations

\* bytes[i] for a 0-based i that is in range.
At(bytes, i) == bytes[i + 1]

\* &bytes[from..to] for 0 <= from <= to <= len.
Slice(bytes, from, to) == SubSeq(bytes, from + 1, to)

\* n copies of byte b.
Fill(b, n) == [k \in 1..n |-> b]

RECURSIVE Pow2(_)
Pow2(n) == IF n = 0 THEN 1 ELSE 2 * Pow2(n - 1)

\* x << n on a u8: the bits shifted out of the byte are lost.
Shl8(x, n) == (x * Pow2(n)) % 256

\* x >> n on a u8.
Shr8(x, n) == x \div Pow2(n)

RECURSIVE BitOr(_, _)
BitOr(a, b) ==
    IF a = 0 THEN b
    ELSE IF b = 0 THEN a
    ELSE (IF a % 2 = 1 \/ b % 2 = 1 THEN 1 ELSE 0) + 2 * BitOr(a \div 2, b \div 2)

RECURSIVE BitAnd(_, _)
BitAnd(a, b) ==
    IF a = 0 \/ b = 0 THEN 0
    ELSE (IF a % 2 = 1 /\ b % 2 = 1 THEN 1 ELSE 0) + 2 * BitAnd(a \div 2, b \div 2)

\* u16::to_be_bytes
U16ToBe(x) == <<(x \div 256) % 256, x % 256>>

\* u16::from_be_bytes([hi, lo])
U16FromBe(hi, lo) == hi * 256 + lo

\* u32::to_be_bytes
U32ToBe(x) ==
    <<(x \div 16777216) % 256, (x \div 65536) % 256, (x \div 256) % 256, x % 256>>

\* label.len() as u8
LenAsU8(label) == Len(label) % 256

\* --------------------------------------------------------------- outcomes

ErrResult == [kind |-> "err"]
PanicResult == [kind |-> "panic"]
None == [kind |-> "none"]

\* -------------------------------------------------------------- DNSHeader

\* DNSHeader::new(id, response)
DNSHeaderNew(id, resp) ==
    [id |-> id, qr |-> IF resp THEN 1 ELSE 0, opcode |-> 0, aa |-> 0, tc |-> 0,
     rd |-> 0, ra |-> 0, z |-> 0, rcode |-> 0,
     qdcount |-> 0, ancount |-> 0, nscount |-> 0, arcount |-> 0]

\* FlagsHi with the opcode shifted one bit too far.
FlagsHiOpcodeShift4(h) ==
    BitOr(BitOr(BitOr(BitOr(Shl8(h.qr, 7), Shl8(h.opcode, 4)), Shl8(h.aa, 2)),
                Shl8(h.tc, 1)), h.rd)

\* bytes[2] of DNSHeader::to_bytes
FlagsHi(h) ==
    BitOr(BitOr(BitOr(BitOr(Shl8(h.qr, 7), Shl8(h.opcode, 3)), Shl8(h.aa, 2)),
                Shl8(h.tc, 1)), h.rd)

\* bytes[3] of DNSHeader::to_bytes
FlagsLo(h) == BitOr(BitOr(Shl8(h.ra, 7), Shl8(h.z, 4)), h.rcode)

\* DNSHeader::to_bytes
HeaderToBytes(h) ==
    U16ToBe(h.id) \o <<FlagsHi(h), FlagsLo(h)>> \o U16ToBe(h.qdcount)
        \o U16ToBe(h.ancount) \o U16ToBe(h.nscount) \o U16ToBe(h.arcount)

\* HeaderFields with a three-bit mask on the opcode.
HeaderFieldsOpcodeMask7(bytes) ==
    IF Len(bytes) < 12 THEN PanicResult
    ELSE LET b == Slice(bytes, 0, 12) IN
         [kind |-> "ok",
          h |-> [id |-> U16FromBe(At(b, 0), At(b, 1)),
                 qr |-> Shr8(At(b, 2), 7),
                 opcode |-> BitAnd(Shr8(At(b, 2), 3), 7),
                 aa |-> BitAnd(Shr8(At(b, 2), 2), 1),
                 tc |-> BitAnd(Shr8(At(b, 2), 1), 1),
                 rd |-> BitAnd(At(b, 2), 1),
                 ra |-> Shr8(At(b, 3), 7),
                 z |-> BitAnd(Shr8(At(b, 3), 4), 7),
                 rcode |-> BitAnd(At(b, 3), 15),
                 qdcount |-> U16FromBe(At(b, 4), At(b, 5)),
                 ancount |-> U16FromBe(At(b, 6), At(b, 7)),
                 nscount |-> U16FromBe(At(b, 8), At(b, 9)),
                 arcount |-> U16FromBe(At(b, 10), At(b, 11))]]

\* The Ok branch of DNSHeader::from_bytes: the slice &bytes[0..12], which panics
\* on a shorter buffer, and the field extraction.
HeaderFields(bytes) ==
    IF Len(bytes) < 12 THEN PanicResult
    ELSE LET b == Slice(bytes, 0, 12) IN
         [kind |-> "ok",
          h |-> [id |-> U16FromBe(At(b, 0), At(b, 1)),
                 qr |-> Shr8(At(b, 2), 7),
                 opcode |-> BitAnd(Shr8(At(b, 2), 3), 15),
                 aa |-> BitAnd(Shr8(At(b, 2), 2), 1),
                 tc |-> BitAnd(Shr8(At(b, 2), 1), 1),
                 rd |-> BitAnd(At(b, 2), 1),
                 ra |-> Shr8(At(b, 3), 7),
                 z |-> BitAnd(Shr8(At(b, 3), 4), 7),
                 rcode |-> BitAnd(At(b, 3), 15),
                 qdcount |-> U16FromBe(At(b, 4), At(b, 5)),
                 ancount |-> U16FromBe(At(b, 6), At(b, 7)),
                 nscount |-> U16FromBe(At(b, 8), At(b, 9)),
                 arcount |-> U16FromBe(At(b, 10), At(b, 11))]]

\* HeaderFromBytes with the length check off by one.
HeaderFromBytesCheck11(bytes) ==
    IF Len(bytes) < 11 THEN ErrResult ELSE HeaderFields(bytes)

\* DNSHeader::from_bytes
HeaderFromBytes(bytes) ==
    IF Len(bytes) < 12 THEN ErrResult ELSE HeaderFields(bytes)

\* ------------------------------------------------------ String::from_utf8_lossy

\* core::str::utf8_char_width: the length a lead byte announces, 0 for a byte
\* that cannot start a character.
Utf8CharWidth(b) ==
    IF b < 128 THEN 1
    ELSE IF b \in 194..223 THEN 2
    ELSE IF b \in 224..239 THEN 3
    ELSE IF b \in 240..244 THEN 4
    ELSE 0

\* safe_get of the lossy decoder: 0 past the end.
SafeGet(bytes, i) == IF i < Len(bytes) THEN At(bytes, i) ELSE 0

IsCont(b) == b \in 128..191

\* The second byte a three-byte lead admits.
Second3(b, c) ==
    \/ b = 224 /\ c \in 160..191
    \/ b \in 225..236 /\ c \in 128..191
    \/ b = 237 /\ c \in 128..159
    \/ b \in 238..239 /\ c \in 128..191

\* The second byte a four-byte lead admits.
Second4(b, c) ==
    \/ b = 240 /\ c \in 144..191
    \/ b \in 241..243 /\ c \in 128..191
    \/ b = 244 /\ c \in 128..143

\* One step of the lossy decoder at index i: whether a whole character starts
\* there, and the index after the character or after its broken part.
Utf8Step(bytes, i) ==
    LET b == At(bytes, i)
        w == Utf8CharWidth(b)
    IN  IF w = 1 THEN [valid |-> TRUE, next |-> i + 1]
        ELSE IF w = 2 THEN
            IF IsCont(SafeGet(bytes, i + 1)) THEN [valid |-> TRUE, next |-> i + 2]
            ELSE [valid |-> FALSE, next |-> i + 1]
        ELSE IF w = 3 THEN
            IF ~Second3(b, SafeGet(bytes, i + 1)) THEN [valid |-> FALSE, next |-> i + 1]
            ELSE IF ~IsCont(SafeGet(bytes, i + 2)) THEN [valid |-> FALSE, next |-> i + 2]
            ELSE [valid |-> TRUE, next |-> i + 3]
        ELSE IF w = 4 THEN
            IF ~Second4(b, SafeGet(bytes, i + 1)) THEN [valid |-> FALSE, next |-> i + 1]
            ELSE IF ~IsCont(SafeGet(bytes, i + 2)) THEN [valid |-> FALSE, next |-> i + 2]
            ELSE IF ~IsCont(SafeGet(bytes, i + 3)) THEN [valid |-> FALSE, next |-> i + 3]
            ELSE [valid |-> TRUE, next |-> i + 4]
        ELSE [valid |-> FALSE, next |-> i + 1]

\* U+FFFD, which replaces each broken part.
Replacement == <<239, 191, 189>>

\* Whether the decoder, started at index 0, begins a step at index p.  A step
\* takes a lead byte and at most three continuation bytes, so p is decided by
\* the three bytes before it: a byte that is no continuation byte always begins
\* a step, and a continuation byte begins one unless the step of the nearest
\* byte before it that is no continuation byte reaches past it.
IsStepStart(bytes, p) ==
    \/ p = 0
    \/ p >= Len(bytes)
    \/ ~IsCont(At(bytes, p))
    \/ LET leads == {q \in (p - 3)..(p - 1) : q >= 0 /\ ~IsCont(At(bytes, q))} IN
       \/ leads = {}
       \/ LET q == CHOOSE x \in leads : \A y \in leads : y <= x IN
          Utf8Step(bytes, q).next <= p

RECURSIVE LossySteps(_, _, _)
\* The decoder's loop from step start i up to step start hi.
LossySteps(bytes, i, hi) ==
    IF i >= hi THEN <<>>
    ELSE LET c == Utf8Step(bytes, i) IN
         (IF c.valid THEN Slice(bytes, i, c.next) ELSE Replacement)
             \o LossySteps(bytes, c.next, hi)

RECURSIVE LossyRange(_, _, _)
\* The same loop over a long range, cut at a step start near its middle, which
\* keeps the evaluation shallow; the output is that of the sequential loop.
LossyRange(bytes, lo, hi) ==
    IF hi - lo <= 8 THEN LossySteps(bytes, lo, hi)
    ELSE LET m0 == (lo + hi) \div 2
             mid == CHOOSE m \in m0..(m0 + 3) :
                        /\ IsStepStart(bytes, m)
                        /\ \A k \in m0..(m - 1) : ~IsStepStart(bytes, k)
         IN  LossyRange(bytes, lo, mid) \o LossyRange(bytes, mid, hi)

\* String::from_utf8_lossy(bytes).to_string(), as the UTF-8 bytes of the String.
FromUtf8Lossy(bytes) == LossyRange(bytes, 0, Len(bytes))

\* ------------------------------------------------------------ DNSQuestion

RECURSIVE NameToBytes(_)
\* The label loop shared by DNSQuestion::to_bytes and DNSAnswer::to_bytes.
NameToBytes(domain_name) ==
    IF domain_name = <<>> THEN <<>>
    ELSE <<LenAsU8(Head(domain_name))>> \o Head(domain_name)
             \o NameToBytes(Tail(domain_name))

\* DNSQuestion::to_bytes
QuestionToBytes(q) ==
    NameToBytes(q.domain_name) \o <<0>> \o U16ToBe(q.query_type)
        \o U16ToBe(q.query_class)

RECURSIVE ScanLabels(_, _, _)
\* The while loop of DNSQuestion::from_bytes from index i on: bytes[i] and the
\* label slice are bounds-checked by the language and panic out of range.
ScanLabels(bytes, i, domain_name) ==
    IF i >= Len(bytes) THEN PanicResult
    ELSE IF At(bytes, i) = 0 THEN [kind |-> "ok", i |-> i, domain_name |-> domain_name]
    ELSE LET label_length == At(bytes, i) IN
         IF i + 1 + label_length > Len(bytes) THEN PanicResult
         ELSE ScanLabels(bytes, i + 1 + label_length,
                         Append(domain_name,
                                FromUtf8Lossy(Slice(bytes, i + 1, i + 1 + label_length))))

\* QuestionFromBytes reading the type and class one byte early, at the terminator.
QuestionFromBytesAtTerminator(bytes) ==
    LET s == ScanLabels(bytes, 0, <<>>) IN
    IF s.kind = "panic" THEN PanicResult
    ELSE IF s.i + 3 >= Len(bytes) THEN PanicResult
    ELSE [kind |-> "ok",
          q |-> [domain_name |-> s.domain_name,
                 query_type |-> U16FromBe(At(bytes, s.i), At(bytes, s.i + 1)),
                 query_class |-> U16FromBe(At(bytes, s.i + 2), At(bytes, s.i + 3))],
          consumed |-> s.i + 4]

\* DNSQuestion::from_bytes.  consumed is one more than the last index read.
QuestionFromBytes(bytes) ==
    LET s == ScanLabels(bytes, 0, <<>>) IN
    IF s.kind = "panic" THEN PanicResult
    ELSE IF s.i + 4 >= Len(bytes) THEN PanicResult
    ELSE [kind |-> "ok",
          q |-> [domain_name |-> s.domain_name,
                 query_type |-> U16FromBe(At(bytes, s.i + 1), At(bytes, s.i + 2)),
                 query_class |-> U16FromBe(At(bytes, s.i + 3), At(bytes, s.i + 4))],
          consumed |-> s.i + 5]

\* -------------------------------------------------------------- DNSAnswer

\* Ipv4Addr::octets
Octets(rdata) == rdata

\* DNSAnswer::to_bytes
AnswerToBytes(a) ==
    NameToBytes(a.domain_name) \o <<0>> \o U16ToBe(a.query_type)
        \o U16ToBe(a.query_class) \o U32ToBe(a.ttl) \o U16ToBe(a.rdlength)
        \o Octets(a.rdata)

\* --------------------------------------------------------------- DNSQuery

\* DNSQuery::new
DNSQueryNew(id, question) ==
    [header |-> DNSHeaderNew(id, FALSE), question_section |-> question]

\* DNSQuery::from_bytes.  question_attempted tells whether control reached
\* DNSQuestion::from_bytes.
QueryFromBytes(bytes) ==
    LET header == HeaderFromBytes(bytes) IN
    IF header.kind = "err" THEN [kind |-> "err", question_attempted |-> FALSE]
    ELSE IF header.kind = "panic" \/ Len(bytes) < 12
         THEN [kind |-> "panic", question_attempted |-> FALSE]
    ELSE LET question_section == QuestionFromBytes(Slice(bytes, 12, Len(bytes))) IN
         IF question_section.kind = "panic"
         THEN [kind |-> "panic", question_attempted |-> TRUE]
         ELSE [kind |-> "ok", question_attempted |-> TRUE,
               query |-> DNSQueryNew(header.h.id, question_section.q)]

\* ------------------------------------------------------------ DNSResponse

\* ForRequest that leaves the answer count at 0.
ForRequestNoAncount(query) ==
    LET header == [DNSHeaderNew(query.header.id, TRUE) EXCEPT !.qdcount = 1]
        answer == [domain_name |-> query.question_section.domain_name,
                   query_type |-> query.question_section.query_type,
                   query_class |-> query.question_section.query_class,
                   ttl |-> 60,
                   rdlength |-> 4,
                   rdata |-> <<8, 8, 8, 8>>]
    IN  [header |-> header,
         question_section |-> query.question_section,
         answer_section |-> answer]

\* DNSResponse::for_request
ForRequest(query) ==
    LET header == [DNSHeaderNew(query.header.id, TRUE) EXCEPT
                       !.qdcount = 1, !.ancount = 1]
        answer == [domain_name |-> query.question_section.domain_name,
                   query_type |-> query.question_section.query_type,
                   query_class |-> query.question_section.query_class,
                   ttl |-> 60,
                   rdlength |-> 4,
                   rdata |-> <<8, 8, 8, 8>>]
    IN  [header |-> header,
         question_section |-> query.question_section,
         answer_section |-> answer]

\* DNSResponse::to_bytes
ResponseToBytes(r) ==
    HeaderToBytes(r.header) \o QuestionToBytes(r.question_section)
        \o AnswerToBytes(r.answer_section)

\* ------------------------------------------------- the datagrams received

RECURSIVE SeqsUpTo(_, _)
\* The sequences over S of length at most n.
SeqsUpTo(S, n) ==
    IF n = 0 THEN {<<>>}
    ELSE LET shorter == SeqsUpTo(S, n - 1) IN
         shorter \cup {Append(t, x) : t \in shorter, x \in S}

RECURSIVE Flatten(_)
Flatten(ss) == IF ss = <<>> THEN <<>> ELSE Head(ss) \o Flatten(Tail(ss))

\* "example" and "com"
Example == <<101, 120, 97, 109, 112, 108, 101>>
Com == <<99, 111, 109>>

\* Twelve header bytes as clients send them: a plain query, a query with RD
\* set, and a header with every field non-zero.
WireHeaders ==
    {<<18, 52, 0, 0, 0, 1, 0, 0, 0, 0, 0, 0>>,
     <<18, 52, 1, 0, 0, 1, 0, 0, 0, 0, 0, 0>>,
     <<171, 205, 173, 165, 0, 2, 0, 1, 1, 0, 0, 3>>}

\* A length byte with the bytes after it: well-formed labels, a label that is
\* not UTF-8, and the byte 0xC0 followed by 192 bytes.
WireChunks ==
    {<<7>> \o Example, <<3>> \o Com, <<1, 97>>, <<2, 195, 169>>, <<1, 255>>,
     <<192>> \o Fill(97, 192)}

\* What ends a question section: nothing, a terminator with 0 to 5 bytes after
\* it, a label whose length byte passes the end, a compression pointer.
WireEndings ==
    {<<>>, <<0>>, <<0, 0>>, <<0, 0, 1>>, <<0, 0, 1, 0>>, <<0, 0, 1, 0, 1>>,
     <<0, 0, 1, 0, 1, 99>>, <<5, 97>>, <<192, 12, 0, 1, 0, 1>>}

RawAlphabet == {0, 1, 97, 192}

\* The bytes after the header.
WireTails ==
    SeqsUpTo(RawAlphabet, MaxRawLen)
        \cup {Flatten(cs) \o e : cs \in SeqsUpTo(WireChunks, MaxChunks), e \in WireEndings}

\* &buf[0..size]: whole messages, and datagrams shorter than a header.
Datagrams ==
    {d \in {h \o t : h \in WireHeaders, t \in WireTails}
            \cup {SubSeq(h, 1, n) : h \in WireHeaders, n \in 0..11} :
        Len(d) <= BufSize}

\* ------------------------------------------------------------ the main loop

Init ==
    /\ pc = "recv"
    /\ buf = <<>>
    /\ result = None
    /\ response = None
    /\ out = <<>>
    /\ arg = None
    /\ enc = <<>>
    /\ dec = None

\* udp_socket.recv_from(&mut buf) returns Ok((size, source)).
Recv ==
    /\ pc = "recv"
    /\ \E d \in Datagrams : buf' = d
    /\ pc' = "parse"
    /\ UNCHANGED <<result, response, out, arg, enc, dec>>

\* udp_socket.recv_from returns Err: the loop breaks and main returns.
RecvFail ==
    /\ pc = "recv"
    /\ pc' = "exited"
    /\ UNCHANGED <<buf, result, response, out, arg, enc, dec>>

\* protocol::DNSQuery::from_bytes(&buf[0..size]): Ok enters the first arm, Err
\* is logged in the second, a panic unwinds main.
Parse ==
    /\ pc = "parse"
    /\ result' = QueryFromBytes(buf)
    /\ pc' = IF result'.kind = "ok" THEN "respond"
             ELSE IF result'.kind = "err" THEN "dropped"
             ELSE "panicked"
    /\ UNCHANGED <<buf, response, out, arg, enc, dec>>

\* The Ok arm: for_request, to_bytes, send_to.
Respond ==
    /\ pc = "respond"
    /\ response' = ForRequest(result.query)
    /\ out' = ResponseToBytes(response')
    /\ pc' = "sent"
    /\ UNCHANGED <<buf, result, arg, enc, dec>>

\* The end of the loop body (and the continue of the Err arm): the values of the
\* iteration are dropped and the loop receives again.
Continue ==
    /\ pc \in {"sent", "dropped"}
    /\ pc' = "recv"
    /\ buf' = <<>>
    /\ result' = None
    /\ response' = None
    /\ out' = <<>>
    /\ UNCHANGED <<arg, enc, dec>>

Next == Recv \/ RecvFail \/ Parse \/ Respond \/ Continue

Spec == Init /\ [][Next]_vars

\* ------------------------------------------------ the header codec alone

\* The fields of bytes[2] and of bytes[3], each within its bit width.
FlagsHiFields == [qr : 0..1, opcode : 0..15, aa : 0..1, tc : 0..1, rd : 0..1]
FlagsLoFields == [ra : 0..1, z : 0..7, rcode : 0..15]

SampleHi ==
    {[qr |-> 0, opcode |-> 0, aa |-> 0, tc |-> 0, rd |-> 0],
     [qr |-> 1, opcode |-> 5, aa |-> 0, tc |-> 1, rd |-> 0],
     [qr |-> 1, opcode |-> 15, aa |-> 1, tc |-> 1, rd |-> 1]}

SampleLo ==
    {[ra |-> 0, z |-> 0, rcode |-> 0],
     [ra |-> 0, z |-> 5, rcode |-> 10],
     [ra |-> 1, z |-> 7, rcode |-> 15]}

\* The 16-bit fields: zeros, a plain query, five different values whose two
\* bytes differ, the largest values.
HeaderWords ==
    {[id |-> 0, qdcount |-> 0, ancount |-> 0, nscount |-> 0, arcount |-> 0],
     [id |-> 4660, qdcount |-> 1, ancount |-> 0, nscount |-> 0, arcount |-> 0],
     [id |-> 43981, qdcount |-> 258, ancount |-> 772, nscount |-> 1286, arcount |-> 255],
     [id |-> 65535, qdcount |-> 65535, ancount |-> 65535, nscount |-> 65535,
      arcount |-> 65535]}

\* Every value of one flag byte against samples of the other.
Headers ==
    {[id |-> w.id, qr |-> f[1].qr, opcode |-> f[1].opcode, aa |-> f[1].aa,
      tc |-> f[1].tc, rd |-> f[1].rd, ra |-> f[2].ra, z |-> f[2].z,
      rcode |-> f[2].rcode, qdcount |-> w.qdcount, ancount |-> w.ancount,
      nscount |-> w.nscount, arcount |-> w.arcount] :
        w \in HeaderWords,
        f \in (FlagsHiFields \X SampleLo) \cup (SampleHi \X FlagsLoFields)}

InitHeader ==
    /\ pc = "new"
    /\ arg \in Headers
    /\ enc = <<>>
    /\ dec = None
    /\ buf = <<>>
    /\ result = None
    /\ response = None
    /\ out = <<>>

\* header.to_bytes()
EncodeHeader ==
    /\ pc = "new"
    /\ enc' = HeaderToBytes(arg)
    /\ pc' = "encoded"
    /\ UNCHANGED <<arg, dec, buf, result, response, out>>

\* DNSHeader::from_bytes on the encoder's output
DecodeHeader ==
    /\ pc = "encoded"
    /\ dec' = HeaderFromBytes(enc)
    /\ pc' = "decoded"
    /\ UNCHANGED <<arg, enc, buf, result, response, out>>

NextHeader == EncodeHeader \/ DecodeHeader

SpecHeader == InitHeader /\ [][NextHeader]_vars

\* ---------------------------------------------- the question codec alone

\* Labels as Strings: empty, ASCII, a two-byte character, and lengths around
\* the largest a length byte holds.
Labels ==
    {<<>>, <<97>>, Example, Com, <<195, 169>>, Fill(97, 63), Fill(122, 255),
     Fill(97, 256), Fill(97, 257)}

Questions ==
    [domain_name : SeqsUpTo(Labels, MaxLabels),
     query_type : {1, 28, 256, 65535},
     query_class : {1, 255}]

InitQuestion ==
    /\ pc = "new"
    /\ arg \in Questions
    /\ enc = <<>>
    /\ dec = None
    /\ buf = <<>>
    /\ result = None
    /\ response = None
    /\ out = <<>>

\* question.to_bytes()
EncodeQuestion ==
    /\ pc = "new"
    /\ enc' = QuestionToBytes(arg)
    /\ pc' = "encoded"
    /\ UNCHANGED <<arg, dec, buf, result, response, out>>

\* DNSQuestion::from_bytes on the encoder's output; a panic is recorded in dec.
DecodeQuestion ==
    /\ pc = "encoded"
    /\ dec' = QuestionFromBytes(enc)
    /\ pc' = "decoded"
    /\ UNCHANGED <<arg, enc, buf, result, response, out>>

NextQuestion == EncodeQuestion \/ DecodeQuestion

SpecQuestion == InitQuestion /\ [][NextQuestion]_vars

\* ----------------------------------------------- the answer encoder alone

\* Every DNSAnswer the struct admits over small field sets: rdlength is a field
\* of its own, independent of rdata.
Answers ==
    [domain_name : SeqsUpTo({<<97>>, Example, Com}, MaxLabels),
     query_type : {1, 28},
     query_class : {1},
     ttl : {0, 60, 16909060},
     rdlength : {0, 4, 5, 1024},
     rdata : {<<8, 8, 8, 8>>, <<127, 0, 0, 1>>}]

InitAnswer ==
    /\ pc = "new"
    /\ arg \in Answers
    /\ enc = <<>>
    /\ dec = None
    /\ buf = <<>>
    /\ result = None
    /\ response = None
    /\ out = <<>>

\* answer.to_bytes()
EncodeAnswer ==
    /\ pc = "new"
    /\ enc' = AnswerToBytes(arg)
    /\ pc' = "encoded"
    /\ UNCHANGED <<arg, dec, buf, result, response, out>>

NextAnswer == EncodeAnswer

SpecAnswer == InitAnswer /\ [][NextAnswer]_vars

\* ------------------------------------------------------------ the claims

\* The question section of the datagram: &bytes[12..].
QuestionBytes == Slice(buf, 12, Len(buf))

\* Whether DNSQuery::from_bytes has run on buf.
Parsed == result.kind # "none"

\* C1: on every buffer of at least 12 bytes DNSQuery::from_bytes returns a
\* query or an error and never panics (an unterminated name, a label length
\* past the end, fewer than 4 bytes after the terminator included).
C1_DecodeNeverPanics ==
    (Parsed /\ Len(buf) >= 12) => result.kind \in {"ok", "err"}

\* C2: decoding the encoding of a header whose fields are within their bit
\* widths succeeds and gives back the header, field by field.
C2_HeaderRoundTrip ==
    pc = "decoded" => dec = [kind |-> "ok", h |-> arg]

C2_Witness ==
    /\ pc = "decoded"
    /\ dec.kind = "ok"
    /\ arg.id = 43981
    /\ arg.opcode = 15
    /\ arg.rd = 1
    /\ arg.z = 5

AllLabels(q, P(_)) == \A k \in 1..Len(q.domain_name) : P(q.domain_name[k])
AtMost255(label) == Len(label) <= 255
NonEmpty(label) == Len(label) >= 1

\* What C3 expects of the decoder on the encoder's output.
RoundTrips == dec = [kind |-> "ok", q |-> arg, consumed |-> Len(enc)]

\* C3 as stated: for a question whose labels are each at most 255 bytes long,
\* decoding the encoder's output gives back the labels, the type and the class,
\* and consumes exactly the bytes the encoder produced.
C3_Original ==
    (pc = "decoded" /\ AllLabels(arg, AtMost255)) => RoundTrips

\* C3, amended: the same for a question whose labels are each between 1 and
\* 255 bytes long.
C3_QuestionRoundTrip ==
    (pc = "decoded" /\ AllLabels(arg, AtMost255) /\ AllLabels(arg, NonEmpty))
        => RoundTrips

C3_Witness ==
    /\ pc = "decoded"
    /\ arg.domain_name = <<Fill(122, 255), <<195, 169>>>>
    /\ arg.query_type = 256
    /\ dec.kind = "ok"
    /\ dec.consumed = 264

\* The header DNSResponse::for_request is to build for a query with this id.
ResponseHeader(id) ==
    [id |-> id, qr |-> 1, opcode |-> 0, aa |-> 0, tc |-> 0, rd |-> 0, ra |-> 0,
     z |-> 0, rcode |-> 0, qdcount |-> 1, ancount |-> 1, nscount |-> 0,
     arcount |-> 0]

\* C4: the response to a query carries the query's id, qr = 1, qdcount = 1,
\* ancount = 1 and 0 in every other header field, the query's question, and an
\* answer with the question's name, type and class, ttl 60, rdlength 4 and
\* rdata 8.8.8.8; the bytes sent are the 12 header bytes, then the encoded
\* question, then the encoded answer.
C4_BuildResponse ==
    pc = "sent" =>
        LET q == result.query.question_section
            id == result.query.header.id
            name == NameToBytes(q.domain_name) \o <<0>>
            tc == U16ToBe(q.query_type) \o U16ToBe(q.query_class)
        IN  /\ response.header = ResponseHeader(id)
            /\ response.question_section = q
            /\ response.answer_section =
                   [domain_name |-> q.domain_name, query_type |-> q.query_type,
                    query_class |-> q.query_class, ttl |-> 60, rdlength |-> 4,
                    rdata |-> <<8, 8, 8, 8>>]
            /\ out = <<id \div 256, id % 256, 128, 0, 0, 1, 0, 1, 0, 0, 0, 0>>
                       \o name \o tc
                       \o name \o tc \o <<0, 0, 0, 60, 0, 4, 8, 8, 8, 8>>

\* The query for example.com, type A, class IN, with id 0x1234, and the
\* response to it.
C4_Witness ==
    /\ pc = "sent"
    /\ buf = <<18, 52, 0, 0, 0, 1, 0, 0, 0, 0, 0, 0>>
                \o <<7>> \o Example \o <<3>> \o Com \o <<0, 0, 1, 0, 1>>
    /\ out = <<18, 52, 128, 0, 0, 1, 0, 1, 0, 0, 0, 0>>
                \o <<7>> \o Example \o <<3>> \o Com \o <<0, 0, 1, 0, 1>>
                \o <<7>> \o Example \o <<3>> \o Com \o <<0, 0, 1, 0, 1>>
                \o <<0, 0, 0, 60, 0, 4, 8, 8, 8, 8>>

\* Where the rdlength field starts in the encoding of an answer (0-based).
RdlengthAt(a) == Len(NameToBytes(a.domain_name)) + 1 + 2 + 2 + 4

\* C5: the rdlength DNSAnswer::to_bytes writes equals the number of data bytes
\* it writes after it, whatever the rdlength field of the answer says.
C5_RdlengthMatchesData ==
    pc = "encoded" =>
        U16FromBe(At(enc, RdlengthAt(arg)), At(enc, RdlengthAt(arg) + 1))
            = Len(enc) - (RdlengthAt(arg) + 2)

RECURSIVE MeetsPointer(_, _)
\* Whether a walk over the labels from index i meets, at a label boundary, a
\* length byte with its top two bits set.
MeetsPointer(bytes, i) ==
    IF i >= Len(bytes) THEN FALSE
    ELSE IF At(bytes, i) = 0 THEN FALSE
    ELSE IF At(bytes, i) >= 192 THEN TRUE
    ELSE IF i + 1 + At(bytes, i) > Len(bytes) THEN FALSE
    ELSE MeetsPointer(bytes, i + 1 + At(bytes, i))

\* C6: a question section with a compression pointer at a label boundary is
\* never decoded successfully with the pointer byte taken as a label length.
C6_PointerNeverDecodes ==
    (Parsed /\ Len(buf) >= 12 /\ MeetsPointer(QuestionBytes, 0))
        => result.kind # "ok"

\* Where label k starts in the encoding of a name (0-based).
LabelAt(domain_name, k) == Len(NameToBytes(SubSeq(domain_name, 1, k - 1)))

\* C7: the encoder never emits, for a label longer than 255 bytes, the length
\* modulo 256 followed by the whole label.
C7_LongLabelNotTruncated ==
    pc = "encoded" =>
        \A k \in 1..Len(arg.domain_name) :
            LET label == arg.domain_name[k]
                at == LabelAt(arg.domain_name, k)
            IN  Len(label) > 255 =>
                    ~ /\ At(enc, at) = Len(label) % 256
                      /\ Slice(enc, at + 1, at + 1 + Len(label)) = label

\* C8: on a buffer shorter than 12 bytes DNSHeader::from_bytes returns the error
\* (it reads no byte: an indexed read past the end would panic) and so does
\* DNSQuery::from_bytes, before DNSQuestion::from_bytes is reached.
C8_ShortBufferIsError ==
    (Parsed /\ Len(buf) < 12) =>
        /\ HeaderFromBytes(buf) = ErrResult
        /\ result.kind = "err"
        /\ ~result.question_attempted

C8_Witness ==
    /\ pc = "dropped"
    /\ Len(buf) = 11
    /\ result.kind = "err"

\* C9: the encoded header is 12 bytes: the id, then qr*128 + opcode*8 + aa*4 +
\* tc*2 + rd, then ra*128 + z*16 + rcode, then the four counts, each 16-bit
\* value high byte first.
C9_HeaderLayout ==
    pc \in {"encoded", "decoded"} =>
        /\ Len(enc) = 12
        /\ enc = <<arg.id \div 256, arg.id % 256,
                   arg.qr * 128 + arg.opcode * 8 + arg.aa * 4 + arg.tc * 2 + arg.rd,
                   arg.ra * 128 + arg.z * 16 + arg.rcode,
                   arg.qdcount \div 256, arg.qdcount % 256,
                   arg.ancount \div 256, arg.ancount % 256,
                   arg.nscount \div 256, arg.nscount % 256,
                   arg.arcount \div 256, arg.arcount % 256>>

C9_Witness ==
    /\ pc = "encoded"
    /\ arg.opcode = 15
    /\ arg.qr = 0
    /\ arg.rd = 1
    /\ arg.nscount = 1286
    /\ enc[3] = 125
    /\ enc[9] = 5
    /\ enc[10] = 6

\* C10: the query DNSQuery::from_bytes returns has the header that
\* DNSHeader::from_bytes decodes from the first 12 bytes, in every field, and
\* the question that DNSQuestion::from_bytes decodes at offset 12.
C10_QueryIsDecodedHeaderAndQuestion ==
    (Parsed /\ result.kind = "ok") =>
        /\ result.query.header = HeaderFromBytes(Slice(buf, 0, 12)).h
        /\ result.query.question_section = QuestionFromBytes(QuestionBytes).q

====
